---- MODULE Spec2Model ----
(***************************************************************************)
(* Model of code/assign_teams.py: programme_group and assign_teams.        *)
(* One call of assign_teams is a run of the state machine; every loop      *)
(* iteration of the function is one step.  Row labels of the DataFrame     *)
(* are 0-based as in the source; TLA+ sequences are 1-based, so row r of   *)
(* the frame is df[r + 1].                                                 *)
(***************************************************************************)
EXTENDS Integers, Sequences, FiniteSets, TLC

(* ------------------------------ bounds --------------------------------- *)
\* longest roster of the general inputs
MaxN == 6
\* team_size is drawn from 0..MaxTeamSize
MaxTeamSize == 3
\* an explicit target_cross_teams is drawn from 0..MaxTarget
MaxTarget == 2
\* seed is drawn from 0..MaxSeed
MaxSeed == 5
\* empty teams appended by the diverging team_size = 0 chunk loop before
\* the model stops following it
MaxEmptyTeams == 2

(* --------------------------- programme_group --------------------------- *)
\* a missing programme (NaN after the left merge) is not a string
NaN == "<NaN>"

comp == {"B Tech Computer", "MBA Tech Computer", "B Tech IT", "MBA Tech IT",
         "B Tech Data Science"}

aia == {"B Tech AI", "MBA Tech AI", "B Tech Cyber Security"}

other == {"B Tech EXTC", "B Tech Mechanical"}

programme_group(prog) ==
    IF prog = NaN THEN "Unknown"
    ELSE IF prog \in comp THEN "CompGroup"
    ELSE IF prog \in aia THEN "AIAGroup"
    ELSE IF prog \in other THEN "OtherGroup"
    ELSE "OtherGroup"

\* programme labels of the general inputs
Programmes == {"B Tech Computer", NaN}

\* the concrete scenario: 12 students in groups of sizes 5, 5 and 2,
\* team_size = 4, target_cross_teams = 1
Scenario ==
    [roster |-> << "B Tech Computer", "B Tech IT", "MBA Tech IT",
                   "B Tech Computer", "B Tech Data Science",
                   "B Tech AI", "MBA Tech AI", "B Tech AI",
                   "B Tech Cyber Security", "B Tech AI",
                   "B Tech EXTC", "B Design" >>,
     team_size |-> 4,
     target_cross_teams |-> << 1 >>]

(* ------------------------------ helpers -------------------------------- *)
Range(s) == {s[k] : k \in 1..Len(s)}

RECURSIVE Fact(_)
Fact(n) == IF n <= 1 THEN 1 ELSE n * Fact(n - 1)

RemoveAt(s, k) == SubSeq(s, 1, k - 1) \o SubSeq(s, k + 1, Len(s))

\* the permutation of elems with lexicographic rank r
RECURSIVE NthPerm(_, _)
NthPerm(elems, r) ==
    IF Len(elems) = 0 THEN << >>
    ELSE LET f == Fact(Len(elems) - 1)
             q == r \div f
         IN  << elems[q + 1] >> \o NthPerm(RemoveAt(elems, q + 1), r % f)

RangeIndex(n) == [k \in 1..n |-> k - 1]

\* the generator behind sample() is library code: it is modelled as a fixed
\* map from (number of rows, random_state) to a rank among the permutations,
\* spread over all of them
SampleRank(n, random_state) ==
    LET states == MaxSeed + 2
    IN  IF Fact(n) <= states THEN random_state % Fact(n)
        ELSE (random_state * (Fact(n) \div states) + random_state) % Fact(n)

\* sample(frac=1.0, random_state=...) of n rows: the row labels 0..n-1 in
\* the permuted order the generator yields for that random_state
Sample(n, random_state) == NthPerm(RangeIndex(n), SampleRank(n, random_state))

\* groupby sorts its keys
GroupRank(g) ==
    CASE g = "AIAGroup" -> 1
      [] g = "CompGroup" -> 2
      [] g = "OtherGroup" -> 3
      [] g = "Unknown" -> 4

RECURSIVE SortedKeys(_)
SortedKeys(S) ==
    IF S = {} THEN << >>
    ELSE LET m == CHOOSE g \in S : \A h \in S : GroupRank(g) <= GroupRank(h)
         IN  << m >> \o SortedKeys(S \ {m})

\* slip: the keys come in the iteration order of an unordered set
GroupbyOrders_Unsorted(S) ==
    {NthPerm(SortedKeys(S), r) : r \in 0..(Fact(Cardinality(S)) - 1)}

\* the orders in which groupby("programme_group") may yield the keys
GroupbyOrders(S) == {SortedKeys(S)}

\* slip: every leftover goes to the last team
RoundRobin_Last(counter, nteams) == nteams - 1

\* slip: the counter is advanced before it is used
RoundRobin_FromOne(counter, nteams) == (counter + 1) % nteams

\* line 125: t_idx % len(teams)
RoundRobin(counter, nteams) == counter % nteams

\* [x for x in s if x in keep], order of s preserved
RECURSIVE Filter(_, _)
Filter(s, keep) ==
    IF Len(s) = 0 THEN << >>
    ELSE (IF s[1] \in keep THEN << s[1] >> ELSE << >>) \o Filter(Tail(s), keep)

\* slip: no zero padding
Format02d_NoPad(k) == ToString(k)

\* f"{k:02d}"
Format02d(k) == IF k < 10 THEN "0" \o ToString(k) ELSE ToString(k)

TeamLabel(k) == "T" \o Format02d(k)

(* ------------------------------- state --------------------------------- *)
VARIABLES
    roster,             \* argument df: the programme of each student, input order
    team_size,          \* argument
    target_arg,         \* argument target_cross_teams: << >> is None, << k >> is k
    seed,               \* argument
    perm1,              \* outcome of df.sample(random_state=seed)
    perm2,              \* outcome of Series.sample(random_state=seed + 1)
    pc,                 \* position in assign_teams
    exc,                \* the exception that ended the call, "" if none
    df,                 \* the working frame, one record per row
    teams,              \* list of (indices, condition)
    formed,             \* history: the indices of each team when it was appended
    target_cross_teams, \* local, after defaulting
    rng,
    formed_cross,
    used_indices,
    i,
    remaining_indices,
    remaining_df,       \* the index of remaining_df
    groups,             \* keys the groupby loop has still to yield
    group_index,        \* group_df.index of the group in progress
    idxs,
    leftovers,
    t_idx,
    team_counter,
    calls,              \* number of the current call on these arguments
    prev                \* what the previous call returned: << >> before it

vars == << roster, team_size, target_arg, seed, perm1, perm2, pc, exc, df, teams,
           formed, target_cross_teams, rng, formed_cross, used_indices, i,
           remaining_indices, remaining_df, groups, group_index, idxs,
           leftovers, t_idx, team_counter, calls, prev >>

args == << roster, team_size, target_arg, seed, perm1, perm2 >>

RECURSIVE SeqsUpTo(_, _)
SeqsUpTo(S, n) ==
    IF n = 0 THEN {<< >>}
    ELSE LET shorter == SeqsUpTo(S, n - 1)
         IN  shorter \cup {Append(s, x) : s \in {t \in shorter : Len(t) = n - 1}, x \in S}

TargetArgs == {<< >>} \cup {<< k >> : k \in 0..MaxTarget}

Locals0 ==
    /\ pc = "start"
    /\ exc = ""
    /\ df = << >>
    /\ teams = << >>
    /\ formed = << >>
    /\ target_cross_teams = 0
    /\ rng = << >>
    /\ formed_cross = 0
    /\ used_indices = {}
    /\ i = 0
    /\ remaining_indices = << >>
    /\ remaining_df = << >>
    /\ groups = << >>
    /\ group_index = {}
    /\ idxs = << >>
    /\ leftovers = << >>
    /\ t_idx = 0
    /\ team_counter = 1

Init ==
    /\ \/ /\ roster \in SeqsUpTo(Programmes, MaxN)
          /\ team_size \in 0..MaxTeamSize
          /\ target_arg \in TargetArgs
       \/ /\ roster = Scenario.roster
          /\ team_size = Scenario.team_size
          /\ target_arg = Scenario.target_cross_teams
    /\ seed \in 0..MaxSeed
    /\ perm1 = Sample(Len(roster), seed)
    /\ perm2 = Sample(Len(roster), seed + 1)
    /\ calls = 1
    /\ prev = << >>
    /\ Locals0

(* ------------------------------ actions -------------------------------- *)
\* lines 65-91: copy, classify, shuffle, reset the index, default the target
Row(r) ==
    [student |-> r, programme_group |-> programme_group(roster[r + 1]),
     team_id |-> "", condition |-> ""]

Shuffle ==
    /\ pc = "start"
    /\ IF target_arg = << >> /\ team_size = 0
       THEN /\ pc' = "raised"
            /\ exc' = "ZeroDivisionError"
            /\ df' = [k \in 1..Len(roster) |-> Row(perm1[k])]
            /\ UNCHANGED << target_cross_teams, rng >>
       ELSE /\ pc' = "cross"
            /\ df' = [k \in 1..Len(roster) |-> Row(perm1[k])]
            /\ target_cross_teams' =
                 IF target_arg = << >>
                 THEN LET total_teams == Len(roster) \div team_size
                          half == total_teams \div 2
                      IN  IF half > 1 THEN half ELSE 1
                 ELSE target_arg[1]
            /\ rng' = perm2
            /\ UNCHANGED exc
    /\ UNCHANGED << args, teams, formed, formed_cross, used_indices, i,
                    remaining_indices, remaining_df, groups, group_index,
                    idxs, leftovers, t_idx, team_counter, calls, prev >>

\* slip: a single group already counts as mixed
can_form_cross_AnyGroup(candidate_indices) ==
    LET grps == {df[r + 1].programme_group : r \in Range(candidate_indices)}
    IN  Cardinality(grps) > 0

\* slip: the rows are counted instead of their groups
can_form_cross_CountRows(candidate_indices) ==
    Cardinality(Range(candidate_indices)) > 1

\* lines 86-88
can_form_cross(candidate_indices) ==
    LET grps == {df[r + 1].programme_group : r \in Range(candidate_indices)}
    IN  Cardinality(grps) > 1

\* slip: a rejected window slides by one row instead of team_size
CrossStep_Slide ==
    /\ pc = "cross"
    /\ formed_cross < target_cross_teams
    /\ i + team_size <= Len(rng)
    /\ LET candidate == SubSeq(rng, i + 1, i + team_size)
       IN  IF Range(candidate) \cap used_indices # {}
           THEN UNCHANGED << teams, formed, used_indices, formed_cross >>
           ELSE IF can_form_cross(candidate)
                THEN /\ teams' = Append(teams, [indices |-> candidate, cond |-> "cross"])
                     /\ formed' = Append(formed, candidate)
                     /\ used_indices' = used_indices \cup Range(candidate)
                     /\ formed_cross' = formed_cross + 1
                ELSE UNCHANGED << teams, formed, used_indices, formed_cross >>
    /\ LET candidate == SubSeq(rng, i + 1, i + team_size)
       IN  i' = IF Range(candidate) \cap used_indices = {} /\ ~can_form_cross(candidate)
                THEN i + 1
                ELSE i + team_size
    /\ UNCHANGED << args, pc, exc, df, target_cross_teams, rng,
                    remaining_indices, remaining_df, groups, group_index,
                    idxs, leftovers, t_idx, team_counter, calls, prev >>

\* slip: the scan pointer advances by one row, so windows overlap
CrossStep_Overlap ==
    /\ pc = "cross"
    /\ formed_cross < target_cross_teams
    /\ i + team_size <= Len(rng)
    /\ LET candidate == SubSeq(rng, i + 1, i + team_size)
       IN  IF Range(candidate) \cap used_indices # {}
           THEN UNCHANGED << teams, formed, used_indices, formed_cross >>
           ELSE IF can_form_cross(candidate)
                THEN /\ teams' = Append(teams, [indices |-> candidate, cond |-> "cross"])
                     /\ formed' = Append(formed, candidate)
                     /\ used_indices' = used_indices \cup Range(candidate)
                     /\ formed_cross' = formed_cross + 1
                ELSE UNCHANGED << teams, formed, used_indices, formed_cross >>
    /\ i' = i + 1
    /\ UNCHANGED << args, pc, exc, df, target_cross_teams, rng,
                    remaining_indices, remaining_df, groups, group_index,
                    idxs, leftovers, t_idx, team_counter, calls, prev >>

\* lines 95-104: one iteration of the greedy scan
CrossStep ==
    /\ pc = "cross"
    /\ formed_cross < target_cross_teams
    /\ i + team_size <= Len(rng)
    /\ LET candidate == SubSeq(rng, i + 1, i + team_size)
       IN  IF Range(candidate) \cap used_indices # {}
           THEN UNCHANGED << teams, formed, used_indices, formed_cross >>
           ELSE IF can_form_cross(candidate)
                THEN /\ teams' = Append(teams, [indices |-> candidate, cond |-> "cross"])
                     /\ formed' = Append(formed, candidate)
                     /\ used_indices' = used_indices \cup Range(candidate)
                     /\ formed_cross' = formed_cross + 1
                ELSE UNCHANGED << teams, formed, used_indices, formed_cross >>
    /\ i' = i + team_size
    /\ UNCHANGED << args, pc, exc, df, target_cross_teams, rng,
                    remaining_indices, remaining_df, groups, group_index,
                    idxs, leftovers, t_idx, team_counter, calls, prev >>

\* lines 95, 107-110: the scan ends; the uncommitted rows are grouped
CrossExit ==
    /\ pc = "cross"
    /\ ~(formed_cross < target_cross_teams /\ i + team_size <= Len(rng))
    /\ LET rest == Filter(RangeIndex(Len(df)), (0..(Len(df) - 1)) \ used_indices)
       IN  /\ remaining_indices' = rest
           /\ remaining_df' = rest
           /\ groups' \in GroupbyOrders({df[r + 1].programme_group : r \in Range(rest)})
    /\ pc' = "same_for"
    /\ UNCHANGED << args, exc, df, teams, formed, target_cross_teams, rng,
                    formed_cross, used_indices, i, group_index, idxs,
                    leftovers, t_idx, team_counter, calls, prev >>

\* lines 110-111: the next group of the groupby
ForGroup ==
    /\ pc = "same_for"
    /\ groups # << >>
    /\ LET group_df == Filter(remaining_df,
                              {r \in Range(remaining_df) :
                                   df[r + 1].programme_group = Head(groups)})
       IN  /\ group_index' = Range(group_df)
           /\ idxs' = group_df
    /\ groups' = Tail(groups)
    /\ pc' = "same_while"
    /\ UNCHANGED << args, exc, df, teams, formed, target_cross_teams, rng,
                    formed_cross, used_indices, i, remaining_indices,
                    remaining_df, leftovers, t_idx, team_counter, calls, prev >>

\* slip: the rest of the group starts one row too late
Chunk_SkipRow ==
    /\ pc = "same_while"
    /\ Len(idxs) >= team_size
    /\ team_size > 0 \/ Len(teams) < MaxEmptyTeams
    /\ LET team_idxs == SubSeq(idxs, 1, team_size)
       IN  /\ teams' = Append(teams, [indices |-> team_idxs, cond |-> "same"])
           /\ formed' = Append(formed, team_idxs)
    /\ idxs' = SubSeq(idxs, team_size + 2, Len(idxs))
    /\ UNCHANGED << args, pc, exc, df, target_cross_teams, rng, formed_cross,
                    used_indices, i, remaining_indices, remaining_df, groups,
                    group_index, leftovers, t_idx, team_counter, calls, prev >>

\* lines 112-115: one chunk of the group becomes a same team
Chunk ==
    /\ pc = "same_while"
    /\ Len(idxs) >= team_size
    /\ team_size > 0 \/ Len(teams) < MaxEmptyTeams
    /\ LET team_idxs == SubSeq(idxs, 1, team_size)
       IN  /\ teams' = Append(teams, [indices |-> team_idxs, cond |-> "same"])
           /\ formed' = Append(formed, team_idxs)
    /\ idxs' = SubSeq(idxs, team_size + 1, Len(idxs))
    /\ UNCHANGED << args, pc, exc, df, target_cross_teams, rng, formed_cross,
                    used_indices, i, remaining_indices, remaining_df, groups,
                    group_index, leftovers, t_idx, team_counter, calls, prev >>

\* lines 112, 117: the group is exhausted, its remainder is kept aside
EndGroup ==
    /\ pc = "same_while"
    /\ Len(idxs) < team_size
    /\ remaining_indices' =
         Filter(remaining_indices,
                {r \in Range(remaining_indices) :
                     r \notin group_index \/ r \in Range(idxs)})
    /\ pc' = "same_for"
    /\ UNCHANGED << args, exc, df, teams, formed, target_cross_teams, rng,
                    formed_cross, used_indices, i, remaining_df, groups,
                    group_index, idxs, leftovers, t_idx, team_counter, calls,
                    prev >>

\* slip: only the teams after the first are looked at
Leftovers_SkipFirstTeam(tms, n) ==
    LET taken == UNION {Range(tms[k].indices) : k \in 2..Len(tms)}
    IN  Filter(RangeIndex(n), (0..(n - 1)) \ taken)

\* line 120: rows of no team, in index order
Leftovers(tms, n) ==
    LET taken == UNION {Range(tms[k].indices) : k \in 1..Len(tms)}
    IN  Filter(RangeIndex(n), (0..(n - 1)) \ taken)

\* lines 110, 120-123: the groupby is exhausted
EndFor ==
    /\ pc = "same_for"
    /\ groups = << >>
    /\ leftovers' = Leftovers(teams, Len(df))
    /\ t_idx' = 0
    /\ pc' = "pack"
    /\ UNCHANGED << args, exc, df, teams, formed, target_cross_teams, rng,
                    formed_cross, used_indices, i, remaining_indices,
                    remaining_df, groups, group_index, idxs, team_counter,
                    calls, prev >>

\* lines 124-126: one leftover is appended round-robin
Pack ==
    /\ pc = "pack"
    /\ t_idx < Len(leftovers)
    /\ IF Len(teams) = 0
       THEN /\ pc' = "raised"
            /\ exc' = "ZeroDivisionError"
            /\ UNCHANGED << teams, t_idx >>
       ELSE /\ LET k == RoundRobin(t_idx, Len(teams)) + 1
               IN  teams' = [teams EXCEPT ![k].indices =
                                 Append(@, leftovers[t_idx + 1])]
            /\ t_idx' = t_idx + 1
            /\ UNCHANGED << pc, exc >>
    /\ UNCHANGED << args, df, formed, target_cross_teams, rng, formed_cross,
                    used_indices, i, remaining_indices, remaining_df, groups,
                    group_index, idxs, leftovers, team_counter, calls, prev >>

\* lines 121, 124, 129: no leftover is left
EndPack ==
    /\ pc = "pack"
    /\ t_idx = Len(leftovers)
    /\ pc' = "label"
    /\ team_counter' = 1
    /\ UNCHANGED << args, exc, df, teams, formed, target_cross_teams, rng,
                    formed_cross, used_indices, i, remaining_indices,
                    remaining_df, groups, group_index, idxs, leftovers, t_idx,
                    calls, prev >>

\* lines 130-134: the next team is labelled and its rows are stamped
Label ==
    /\ pc = "label"
    /\ team_counter <= Len(teams)
    /\ LET t == teams[team_counter]
           team_label == TeamLabel(team_counter)
       IN  df' = [k \in 1..Len(df) |->
                    IF (k - 1) \in Range(t.indices)
                    THEN [df[k] EXCEPT !.team_id = team_label,
                                       !.condition = t.cond]
                    ELSE df[k]]
    /\ team_counter' = team_counter + 1
    /\ UNCHANGED << args, pc, exc, teams, formed, target_cross_teams, rng,
                    formed_cross, used_indices, i, remaining_indices,
                    remaining_df, groups, group_index, idxs, leftovers, t_idx,
                    calls, prev >>

\* lines 130, 136
Return ==
    /\ pc = "label"
    /\ team_counter > Len(teams)
    /\ pc' = "done"
    /\ UNCHANGED << args, exc, df, teams, formed, target_cross_teams, rng,
                    formed_cross, used_indices, i, remaining_indices,
                    remaining_df, groups, group_index, idxs, leftovers, t_idx,
                    team_counter, calls, prev >>

\* what the caller of a finished call observes
Outcome ==
    [pc |-> pc, exc |-> exc,
     df |-> IF pc = "done" THEN df ELSE << >>,
     teams |-> IF pc = "done" THEN teams ELSE << >>]

\* the caller calls assign_teams a second time with the same arguments
CallAgain ==
    /\ pc \in {"done", "raised"}
    /\ calls = 1
    /\ calls' = calls + 1
    /\ prev' = << Outcome >>
    /\ pc' = "start"
    /\ exc' = ""
    /\ df' = << >>
    /\ teams' = << >>
    /\ formed' = << >>
    /\ target_cross_teams' = 0
    /\ rng' = << >>
    /\ formed_cross' = 0
    /\ used_indices' = {}
    /\ i' = 0
    /\ remaining_indices' = << >>
    /\ remaining_df' = << >>
    /\ groups' = << >>
    /\ group_index' = {}
    /\ idxs' = << >>
    /\ leftovers' = << >>
    /\ t_idx' = 0
    /\ team_counter' = 1
    /\ UNCHANGED args

Next ==
    \/ Shuffle
    \/ CrossStep
    \/ CrossExit
    \/ ForGroup
    \/ Chunk
    \/ EndGroup
    \/ EndFor
    \/ Pack
    \/ EndPack
    \/ Label
    \/ Return
    \/ CallAgain

Spec == Init /\ [][Next]_vars

(* ------------------------------ claims --------------------------------- *)
Students == 0..(Len(roster) - 1)

\* the (team, position) slots that hold a row of student s
SlotsOf(s) ==
    {sl \in UNION {{<< k, p >> : p \in 1..Len(teams[k].indices)} : k \in 1..Len(teams)} :
         df[teams[sl[1]].indices[sl[2]] + 1].student = s}

RowsOf(s) == {k \in 1..Len(df) : df[k].student = s}

GroupsOf(indices) == {df[r + 1].programme_group : r \in Range(indices)}

\* C1 (Coverage): when a call on a non-empty roster with team_size >= 1
\* completes, every student occupies exactly one member slot of exactly one
\* team, has exactly one row, and that row carries a team id and a condition
\* in {cross, same}.
C1_Coverage ==
    (pc = "done" /\ Len(roster) >= 1 /\ team_size >= 1) =>
        \A s \in Students :
            /\ Cardinality(SlotsOf(s)) = 1
            /\ Cardinality(RowsOf(s)) = 1
            /\ \A k \in RowsOf(s) :
                   /\ df[k].team_id # ""
                   /\ df[k].condition \in {"cross", "same"}

C1_Witness ==
    /\ pc = "done"
    /\ Len(roster) >= 1
    /\ team_size >= 1
    /\ formed_cross >= 1
    /\ \E k \in 1..Len(teams) : teams[k].cond = "same"
    /\ leftovers # << >>

\* C2 (NoTeamsFormed): whenever leftovers exist and no team was formed, the
\* call ends in an explicit NoTeamsFormed outcome instead of computing
\* counter mod 0.
C2_NoTeamsFormed ==
    (leftovers # << >> /\ Len(teams) = 0 /\ pc # "pack") =>
        (pc = "raised" /\ exc = "NoTeamsFormed")

\* C3 (InvalidConfiguration): a call with team_size <= 0 or an empty roster
\* never gets past its entry except by raising InvalidConfiguration.
C3_InvalidConfiguration ==
    (team_size <= 0 \/ Len(roster) = 0) =>
        (pc = "start" \/ (pc = "raised" /\ exc = "InvalidConfiguration"))

\* C4 (labels match formation-time membership): a team whose condition is
\* cross had rows of at least two programme groups when it was appended, a
\* team whose condition is same had rows of exactly one; for every team of
\* a valid call, and for every team whose rows have been stamped.
FormationMatches(k) ==
    /\ teams[k].cond = "cross" => Cardinality(GroupsOf(formed[k])) >= 2
    /\ teams[k].cond = "same" => Cardinality(GroupsOf(formed[k])) = 1
    /\ teams[k].cond \in {"cross", "same"}

C4_ConditionMatchesFormation ==
    /\ Len(formed) = Len(teams)
    /\ team_size >= 1 => \A k \in 1..Len(teams) : FormationMatches(k)
    /\ pc \in {"label", "done"} =>
           \A k \in 1..Len(teams) : k < team_counter => FormationMatches(k)

C4_Witness ==
    /\ pc = "done"
    /\ \E k \in 1..Len(teams) :
           /\ teams[k].cond = "cross"
           /\ Cardinality(GroupsOf(formed[k])) >= 2
    /\ \E k \in 1..Len(teams) :
           /\ teams[k].cond = "same"
           /\ Cardinality(GroupsOf(formed[k])) = 1
           /\ Cardinality(GroupsOf(teams[k].indices)) >= 2

\* C5 (Determinism): a second call with the same roster, team_size,
\* target_cross_teams and permutations ends exactly as the first one did:
\* same frame (team ids, conditions), same teams in the same order.
C5_Determinism ==
    (calls = 2 /\ pc \in {"done", "raised"}) => Outcome = prev[1]

C5_Witness ==
    /\ calls = 2
    /\ pc = "done"
    /\ leftovers # << >>
    /\ \E k1, k2 \in 1..Len(teams) :
           /\ teams[k1].cond = "same"
           /\ teams[k2].cond = "same"
           /\ GroupsOf(formed[k1]) # GroupsOf(formed[k2])

\* C6 (Size bound): once the leftovers are distributed, every team has at
\* least team_size and at most team_size + (number of leftovers) members,
\* and any two teams differ in size by at most 1.
C6_SizeBound ==
    pc \in {"label", "done"} =>
        /\ \A k \in 1..Len(teams) :
               /\ Len(teams[k].indices) >= team_size
               /\ Len(teams[k].indices) <= team_size + Len(leftovers)
        /\ \A k1, k2 \in 1..Len(teams) :
               Len(teams[k1].indices) - Len(teams[k2].indices) <= 1

C6_Witness ==
    /\ pc = "done"
    /\ Len(teams) >= 2
    /\ Len(leftovers) >= 2
    /\ \A k \in 1..Len(teams) : Len(teams[k].indices) > team_size

IsScenario ==
    /\ roster = Scenario.roster
    /\ team_size = Scenario.team_size
    /\ target_arg = Scenario.target_cross_teams

\* C7 (Concrete scenario): the call on the 12-student scenario returns
\* exactly 3 teams that cover all 12 students, at least one of them cross,
\* with team ids T01, T02, T03.
C7_Scenario ==
    (IsScenario /\ pc = "done") =>
        /\ Len(teams) = 3
        /\ \A s \in Students : Cardinality(SlotsOf(s)) = 1
        /\ \E k \in 1..Len(teams) : teams[k].cond = "cross"
        /\ {df[k].team_id : k \in 1..Len(df)} = {"T01", "T02", "T03"}

Homogeneous ==
    Cardinality({programme_group(roster[k]) : k \in 1..Len(roster)}) = 1

\* C8 (Best-effort target): on a roster of a single programme group no cross
\* team is ever formed, every team is a same team, and the missed target is
\* no error: the call raises only if team_size is 0 or exceeds the roster.
C8_BestEffortTarget ==
    Homogeneous =>
        /\ formed_cross = 0
        /\ \A k \in 1..Len(teams) : teams[k].cond = "same"
        /\ pc = "raised" => (team_size = 0 \/ Len(roster) < team_size)

C8_Witness ==
    /\ Homogeneous
    /\ pc = "done"
    /\ target_cross_teams >= 1
    /\ i >= 2 * team_size
    /\ Len(teams) >= 2

ExpectedIds ==
    << "T01", "T02", "T03", "T04", "T05", "T06", "T07", "T08", "T09", "T10",
       "T11", "T12" >>

\* C9 (Team labelling): in a returned assignment the k-th team in formation
\* order carries the id T01, T02, ... of its position, the ids present are
\* exactly those of the teams, no same team precedes a cross team, and every
\* member row carries its team's id and condition.
C9_TeamLabelling ==
    pc = "done" =>
        /\ \A k \in 1..Len(teams) :
               /\ SubSeq(teams[k].indices, 1, Len(formed[k])) = formed[k]
               /\ \A r \in Range(teams[k].indices) :
                      /\ df[r + 1].team_id = ExpectedIds[k]
                      /\ df[r + 1].condition = teams[k].cond
        /\ {df[k].team_id : k \in 1..Len(df)} =
               {ExpectedIds[k] : k \in 1..Len(teams)}
        /\ \A k1, k2 \in 1..Len(teams) :
               (k1 < k2 /\ teams[k1].cond = "same") => teams[k2].cond = "same"

C9_Witness ==
    /\ pc = "done"
    /\ Len(teams) >= 3
    /\ teams[1].cond = "cross"
    /\ teams[Len(teams)].cond = "same"
    /\ df[Len(df)].team_id = "T03"

NumWindows == Len(perm2) \div team_size

Window(j) == SubSeq(perm2, (j - 1) * team_size + 1, j * team_size)

HetWindows == {j \in 1..NumWindows : Cardinality(GroupsOf(Window(j))) > 1}

HetUpTo(j) == {h \in HetWindows : h <= j}

NthHet(m) == CHOOSE j \in HetWindows : Cardinality(HetUpTo(j)) = m

CrossCount ==
    IF target_cross_teams < Cardinality(HetWindows)
    THEN (IF target_cross_teams > 0 THEN target_cross_teams ELSE 0)
    ELSE Cardinality(HetWindows)

PastScan == pc \in {"same_for", "same_while", "pack", "label", "done"}

Scanning == pc = "cross"

\* C10 (Greedy single-pass cross formation): with team_size >= 1 the scan
\* pointer is always a multiple of team_size, during the scan the cross
\* teams are the heterogeneous windows among those already passed, and after
\* the scan the cross teams are, in order, the first min(target, h)
\* heterogeneous full windows of the second permutation, the pointer
\* standing right behind the window that met the target, or behind the last
\* full window if the target was not met.
C10_GreedySinglePass ==
    (team_size >= 1 /\ (Scanning \/ PastScan)) =>
        /\ i % team_size = 0
        /\ i <= NumWindows * team_size
        /\ formed_cross <= target_cross_teams \/ formed_cross = 0
        /\ formed_cross = Cardinality(HetUpTo(i \div team_size))
        /\ formed_cross = Cardinality({k \in 1..Len(teams) : teams[k].cond = "cross"})
        /\ PastScan =>
              /\ formed_cross = CrossCount
              /\ \A m \in 1..CrossCount :
                     /\ teams[m].cond = "cross"
                     /\ formed[m] = Window(NthHet(m))
              /\ i = IF target_cross_teams <= 0 THEN 0
                     ELSE IF target_cross_teams <= Cardinality(HetWindows)
                     THEN NthHet(target_cross_teams) * team_size
                     ELSE NumWindows * team_size

C10_Witness ==
    /\ team_size >= 2
    /\ pc = "done"
    /\ formed_cross = target_cross_teams
    /\ target_cross_teams < Cardinality(HetWindows)
    /\ 1 \notin HetWindows

\* the leftovers that position k of the team list is due so far: numbers
\* k-1, k-1+T, k-1+2T, ... below the counter, T the number of teams
DueTo(k) ==
    LET T == Len(teams)
        count == Cardinality({j \in 0..(t_idx - 1) : j % T = k - 1})
    IN  [m \in 1..count |-> leftovers[(k - 1) + (m - 1) * T + 1]]

\* C11 (Leftover redistribution frame): while and after the leftovers are
\* distributed over T >= 1 teams, the team list is still the list of teams
\* formed in Phases 2-3, in that order and with their conditions (the cross
\* teams first), and each team's members are its formation-time members
\* followed by exactly the leftovers number j with j mod T = its position.
C11_LeftoverFrame ==
    (pc \in {"pack", "label", "done"} /\ Len(teams) >= 1) =>
        /\ Len(teams) = Len(formed)
        /\ \A k \in 1..Len(teams) :
               /\ teams[k].indices = formed[k] \o DueTo(k)
               /\ teams[k].cond = IF k <= formed_cross THEN "cross" ELSE "same"
        /\ pc # "pack" => t_idx = Len(leftovers)

C11_Witness ==
    /\ pc = "done"
    /\ Len(teams) >= 2
    /\ Len(leftovers) > Len(teams)
    /\ teams[1].cond # teams[Len(teams)].cond

\* C12 (sizes within team_size +/- 1): once the leftovers are packed onto
\* at least one team, every team has between team_size - 1 and
\* team_size + 1 members.
C12_SizesWithinOne ==
    (pc \in {"label", "done"} /\ Len(teams) >= 1) =>
        \A k \in 1..Len(teams) :
            /\ Len(teams[k].indices) >= team_size - 1
            /\ Len(teams[k].indices) <= team_size + 1

\* the rows of group g that Phase 2 left uncommitted, in index order
RowsOfGroup(g) ==
    Filter(remaining_df,
           {r \in Range(remaining_df) : df[r + 1].programme_group = g})

LeftoversOfGroup(g) ==
    Filter(leftovers, {r \in Range(leftovers) : df[r + 1].programme_group = g})

SameTeams == {k \in 1..Len(teams) : teams[k].cond = "same"}

\* C13 (Same-team chunking leaves a bounded remainder): with team_size >= 1,
\* after Phase 3 the same teams are exactly the consecutive full chunks of
\* team_size rows of each group's uncommitted rows, what stays uncommitted
\* of a group is the tail behind its last full chunk, shorter than
\* team_size, and the leftovers handed to Phase 4 number at most
\* (groups among the uncommitted rows) * (team_size - 1).
C13_BoundedRemainder ==
    (team_size >= 1 /\ pc \in {"pack", "label", "done"}) =>
        LET grps == GroupsOf(remaining_df)
        IN  /\ \A g \in grps :
                   LET rows == RowsOfGroup(g)
                       q == Len(rows) \div team_size
                   IN  /\ \A c \in 1..q :
                              \E k \in SameTeams :
                                  formed[k] = SubSeq(rows, (c - 1) * team_size + 1,
                                                     c * team_size)
                       /\ LeftoversOfGroup(g) =
                              SubSeq(rows, q * team_size + 1, Len(rows))
                       /\ Len(LeftoversOfGroup(g)) < team_size
            /\ \A k \in SameTeams : Len(formed[k]) = team_size
            /\ Range(leftovers) \subseteq Range(remaining_df)
            /\ remaining_indices = leftovers
            /\ Len(leftovers) <= Cardinality(grps) * (team_size - 1)
            /\ Len(leftovers) <= Cardinality(GroupsOf(leftovers)) * (team_size - 1)

C13_Witness ==
    /\ team_size >= 2
    /\ pc = "done"
    /\ formed_cross >= 1
    /\ Cardinality(SameTeams) >= 1
    /\ Cardinality(GroupsOf(leftovers)) >= 2

\* the while condition of line 95
ScanContinues ==
    /\ formed_cross < target_cross_teams
    /\ i + team_size <= Len(rng)

\* C14 (the skip branch of Phase 2 is unreachable): during the scan only
\* rows of windows already passed are marked used, so whenever the loop is
\* about to take a window, no row of that window is in used_indices.
C14_SkipUnreachable ==
    pc = "cross" =>
        /\ i <= Len(rng)
        /\ used_indices \subseteq Range(SubSeq(rng, 1, i))
        /\ ScanContinues =>
               Range(SubSeq(rng, i + 1, i + team_size)) \cap used_indices = {}

C14_Witness ==
    /\ pc = "cross"
    /\ ScanContinues
    /\ team_size >= 2
    /\ used_indices # {}
====
